---- MODULE Spec2Model ----
(***************************************************************************)
(* URL query-parameter state synchronisation of the starter scaffold:      *)
(*   lib/urlState.ts      (parseUrlParams, buildQueryString, setUrlParams, *)
(*                          updateUrlParams, removeUrlParams, table presets)*)
(*   hooks/useUrlState.ts (useUrlState, useTableUrlState)                   *)
(*                                                                         *)
(* Representation.                                                          *)
(*  - A JavaScript string is a sequence of one-character strings, so that  *)
(*    the /^\d+$/ test, parseInt and String(n) are computed, not assumed.   *)
(*  - A JavaScript value is a tagged record [kind, val]; the number 1, the  *)
(*    string "1" and the boolean true are three different values.           *)
(*  - An object is the list of its own (key, value) properties in the      *)
(*    order in which the keys were inserted, which is the order in which   *)
(*    Object.entries and the spread operator visit them (no key of the     *)
(*    model is an integer index); a key can be an own key whose value is   *)
(*    undefined.  Property reads go through Get, which also sees what      *)
(*    every object inherits from Object.prototype.                         *)
(*  - window.location.search is held as the list of (key, value) pairs     *)
(*    that new URLSearchParams(search) iterates over; the textual           *)
(*    percent-encoding of the browser is below this level.                  *)
(***************************************************************************)
EXTENDS Integers, Sequences, FiniteSets, TLC

VARIABLES
  entries,     \* session history: sequence of URLs [path, search, hash]
  cur,         \* index of the current entry (window.location = entries[cur])
  popPending,  \* a back/forward traversal happened, popstate not yet handled
  stores,      \* hook instance -> [hook, defaults, state, snap, batch]
  calls,       \* mutator calls made so far
  filtered,    \* the keys given to setFilter so far
  last,        \* the last operation that ran, with its arguments
  scrollY,     \* window.scrollY
  timers,      \* tasks queued by setTimeout(..., 0): [id, pos], in order
  ranId,       \* id of the timer task that ran last (0: none yet)
  apiLog,      \* the window API accesses of the last setUrlParams, in order
  listeners,   \* registered popstate handlers: [inst, gen, defaults]
  effects,     \* instance -> [gen: its latest render's defaults object,
               \*              reg: the gen its registered handler closes over]
  cIn,         \* codec harness: the input of the pure function
  cOut,        \* codec harness: its result
  cPc,         \* codec harness: position
  aIn,         \* API client: the call (method, config) and the response
  aOut,        \* API client: what was given to fetch, and the outcome
  aPc          \* API client: position of the request

vars ==
  <<entries, cur, popPending, stores, calls, filtered, last, scrollY, timers,
    ranId, apiLog, listeners, effects, cIn, cOut, cPc, aIn, aOut, aPc>>

(***************************************************************************)
(* Bounds of the model                                                      *)
(***************************************************************************)
MaxQueryLen == 3     \* pairs in a query string given to the codec harness
MaxCalls == 2        \* mutator calls in one run of the page
MaxBatch == 2        \* mutator calls of one event handler (between renders)
MaxRenders == 2      \* renders of one instance, each with a new defaults object

(***************************************************************************)
(* JavaScript values                                                        *)
(***************************************************************************)
Undef == [kind |-> "undef", val |-> 0]
Null == [kind |-> "null", val |-> 0]
Num(n) == [kind |-> "num", val |-> n]
Str(s) == [kind |-> "str", val |-> s]
Bool(b) == [kind |-> "bool", val |-> b]
Arr(s) == [kind |-> "arr", val |-> s]
\* the function every object inherits as its toString property
Fn == [kind |-> "fn", val |-> 0]

IsArray(v) == v.kind = "arr"

sEmpty == <<>>
sTrue == <<"t", "r", "u", "e">>
sFalse == <<"f", "a", "l", "s", "e">>
sUndefined == <<"u", "n", "d", "e", "f", "i", "n", "e", "d">>
sNull == <<"n", "u", "l", "l">>
sComma == <<",">>
\* String(Object.prototype.toString)
sFnText == <<"f", "u", "n", "c", "t", "i", "o", "n", " ", "t", "o", "S", "t",
             "r", "i", "n", "g", "(", ")", " ", "{", " ", "[", "n", "a", "t",
             "i", "v", "e", " ", "c", "o", "d", "e", "]", " ", "}">>

DigitChars == <<"0", "1", "2", "3", "4", "5", "6", "7", "8", "9">>
DigitSet == {DigitChars[i] : i \in 1..10}
DigitVal(c) == (CHOOSE i \in 1..10 : DigitChars[i] = c) - 1

\* /^\d+$/.test(s)
IsDigits(s) == Len(s) > 0 /\ \A i \in 1..Len(s) : s[i] \in DigitSet

\* parseInt(s, 10) of a string of decimal digits
RECURSIVE parseInt(_)
parseInt(s) ==
  IF Len(s) = 0 THEN 0
  ELSE 10 * parseInt(SubSeq(s, 1, Len(s) - 1)) + DigitVal(s[Len(s)])

RECURSIVE NatToString(_)
NatToString(n) ==
  IF n < 10 THEN <<DigitChars[n + 1]>>
  ELSE NatToString(n \div 10) \o <<DigitChars[(n % 10) + 1]>>

\* String(v)
RECURSIVE String(_)
RECURSIVE JoinComma(_)
JoinComma(vs) ==
  IF Len(vs) = 0 THEN sEmpty
  ELSE LET h == IF Head(vs).kind \in {"undef", "null"} THEN sEmpty
                ELSE String(Head(vs))
       IN IF Len(vs) = 1 THEN h ELSE h \o sComma \o JoinComma(Tail(vs))
String(v) ==
  CASE v.kind = "str" -> v.val
    [] v.kind = "num" -> IF v.val < 0 THEN <<"-">> \o NatToString(-v.val)
                         ELSE NatToString(v.val)
    [] v.kind = "bool" -> IF v.val THEN sTrue ELSE sFalse
    [] v.kind = "undef" -> sUndefined
    [] v.kind = "null" -> sNull
    [] v.kind = "fn" -> sFnText
    [] v.kind = "arr" -> JoinComma(v.val)

(***************************************************************************)
(* Objects                                                                  *)
(***************************************************************************)
\* an object with the own properties `props`, a list of <<key, value>>
Obj(props) == [kind |-> "obj", val |-> props]

EmptyObj == Obj(<<>>)

\* the object literals { k1: v1 } and { k1: v1, k2: v2 }
ObjOf(k1, v1) == Obj(<<<<k1, v1>>>>)
ObjOf2(k1, v1, k2, v2) == Obj(<<<<k1, v1>>, <<k2, v2>>>>)

IsObj(v) == v.kind = "obj"

\* the names every object inherits from Object.prototype (one representative)
ProtoKeys == {"toString"}

\* Object.keys(obj), as a set
OwnKeys(obj) == {obj.val[i][1] : i \in 1..Len(obj.val)}

\* key in Object.keys(obj)
Has(obj, key) == \E i \in 1..Len(obj.val) : obj.val[i][1] = key

\* the position of an own key in the insertion order
KeyIndex(obj, key) == CHOOSE i \in 1..Len(obj.val) : obj.val[i][1] = key

\* the value of an own property
Own(obj, key) == obj.val[KeyIndex(obj, key)][2]

\* the own properties as a map from key to value, whatever their order
Props(obj) == [k \in OwnKeys(obj) |-> Own(obj, k)]

\* two objects with the same keys and the same value for each key
SameProps(a, b) == Props(a) = Props(b)

\* obj[key]: own property first, then the prototype, else undefined
Get(obj, key) ==
  IF Has(obj, key) THEN Own(obj, key)
  ELSE IF key \in ProtoKeys THEN Fn
  ELSE Undef

\* obj[key] = v: an existing key keeps its place, a new key goes last
Put(obj, key, v) ==
  IF Has(obj, key)
  THEN Obj([obj.val EXCEPT ![KeyIndex(obj, key)] = <<key, v>>])
  ELSE Obj(Append(obj.val, <<key, v>>))

\* { ...a }: the own keys of a; spreading undefined gives {}
Spread(a) == IF a.kind = "undef" THEN EmptyObj ELSE a

\* the properties `props` assigned to obj one after the other
RECURSIVE PutAll(_, _)
PutAll(obj, props) ==
  IF Len(props) = 0 THEN obj
  ELSE PutAll(Put(obj, Head(props)[1], Head(props)[2]), Tail(props))

\* { ...a, ...b }: the keys of a in a's order, then the new keys of b
Merge(a, b) == PutAll(Spread(a), Spread(b).val)

\* keys.forEach(key => delete next[key])
Delete(obj, keys) == Obj(SelectSeq(obj.val, LAMBDA pr : pr[1] \notin keys))

\* the values that || and ?: take for false
Falsy(v) ==
  v \in {Undef, Null, Str(sEmpty), Num(0), Bool(FALSE)}

(***************************************************************************)
(* lib/urlState.ts: the query-string codec                                  *)
(***************************************************************************)
\* the parameter names the claims range over
Keys ==
  {"page", "pageSize", "search", "sortField", "sortOrder", "tag", "tab",
   "filter", "toString"}

\* variant: the decimal-digits case of the type inference is missing
parseStep_NoNumber(result, key, value) ==
  IF Get(result, key) # Undef
  THEN LET existing == Get(result, key)
       IN IF IsArray(existing)
          THEN Put(result, key, Arr(Append(existing.val, Str(value))))
          ELSE Put(result, key, Arr(<<existing, Str(value)>>))
  ELSE IF value = sTrue THEN Put(result, key, Bool(TRUE))
  ELSE IF value = sFalse THEN Put(result, key, Bool(FALSE))
  ELSE Put(result, key, Str(value))

\* the body of params.forEach in parseUrlParams, for one (key, value) pair
parseStep(result, key, value) ==
  IF Get(result, key) # Undef
  THEN LET existing == Get(result, key)
       IN IF IsArray(existing)
          THEN Put(result, key, Arr(Append(existing.val, Str(value))))
          ELSE Put(result, key, Arr(<<existing, Str(value)>>))
  ELSE IF value = sTrue THEN Put(result, key, Bool(TRUE))
  ELSE IF value = sFalse THEN Put(result, key, Bool(FALSE))
  ELSE IF IsDigits(value) THEN Put(result, key, Num(parseInt(value)))
  ELSE Put(result, key, Str(value))

RECURSIVE forEachPair(_, _)
forEachPair(params, result) ==
  IF Len(params) = 0 THEN result
  ELSE forEachPair(Tail(params),
                   parseStep(result, Head(params)[1], Head(params)[2]))

\* the leading '?' of a non-empty query string, held as a pair of its own
QMark == <<"?", sEmpty>>

\* getUrlParams(): new URLSearchParams(search) drops one leading '?'
getUrlParams(search) ==
  IF Len(search) > 0 /\ Head(search) = QMark THEN Tail(search) ELSE search

\* parseUrlParams(defaults), reading the query string `search`
parseUrlParams(search, defaults) ==
  forEachPair(getUrlParams(search), Spread(defaults))

\* the pairs one entry of Object.entries(params) contributes
\* variant: null is not skipped
entryPairs_KeepsNull(key, value) ==
  IF value = Undef \/ value = Str(sEmpty) THEN <<>>
  ELSE IF IsArray(value)
       THEN [i \in 1..Len(value.val) |-> <<key, String(value.val[i])>>]
       ELSE <<<<key, String(value)>>>>

entryPairs(key, value) ==
  IF value = Undef \/ value = Null \/ value = Str(sEmpty) THEN <<>>
  ELSE IF IsArray(value)
       THEN [i \in 1..Len(value.val) |-> <<key, String(value.val[i])>>]
       ELSE <<<<key, String(value)>>>>

\* Object.entries(params).forEach(...), from the i-th own property on
RECURSIVE buildFrom(_, _)
buildFrom(params, i) ==
  IF i > Len(params.val) THEN <<>>
  ELSE entryPairs(params.val[i][1], params.val[i][2])
         \o buildFrom(params, i + 1)

\* variant: the '?' is written also when no key is emitted
buildQueryString_AlwaysMark(params) == <<QMark>> \o buildFrom(params, 1)

\* buildQueryString(params): qs ? `?${qs}` : ''
buildQueryString(params) ==
  LET qs == buildFrom(params, 1)
  IN IF Len(qs) > 0 THEN <<QMark>> \o qs ELSE <<>>

\* parseTableParams(defaults)
parseTableParams(search, defaults) ==
  parseUrlParams(search,
                 Merge(ObjOf2("page", Num(1), "pageSize", Num(10)), defaults))

(***************************************************************************)
(* Codec harness: the pure functions applied to inputs from bounded sets    *)
(***************************************************************************)
CodecQueryKeys == {"page", "toString"}
CodecStrings == {sEmpty, <<"a">>, <<"7">>, sTrue, <<"-", "1">>}
CodecPairs == {<<k, s>> : k \in CodecQueryKeys, s \in CodecStrings}

RECURSIVE SeqsUpTo(_, _)
SeqsUpTo(S, n) ==
  IF n = 0 THEN {<<>>}
  ELSE LET shorter == SeqsUpTo(S, n - 1)
       IN shorter \cup {Append(q, x) : q \in {r \in shorter : Len(r) = n - 1},
                                       x \in S}

CodecQueries == SeqsUpTo(CodecPairs, MaxQueryLen)

\* the defaults argument of parseUrlParams; Undef is "no argument"
CodecDefaults ==
  { Undef, EmptyObj,
    ObjOf("page", Num(1)),
    ObjOf2("page", Num(1), "tag", Str(<<"b">>)),
    ObjOf2("page", Str(sEmpty), "tag", Str(<<"b">>)),
    ObjOf("page", Undef) }

CodecObjKeys == {"page", "tag", "toString"}
CodecValues ==
  { Undef, Null, Str(sEmpty), Str(<<"a">>), Str(<<"7">>), Str(sTrue),
    Num(0), Num(7), Num(12), Bool(TRUE), Bool(FALSE),
    Arr(<<Str(<<"a">>), Str(<<"b">>)>>), Arr(<<Num(1), Str(<<"2">>)>>) }
\* every object over these keys and values, in every insertion order
CodecProps ==
  { s \in SeqsUpTo(CodecObjKeys \X CodecValues, Cardinality(CodecObjKeys)) :
      \A i, j \in 1..Len(s) : i # j => s[i][1] # s[j][1] }
CodecObjects == { Obj(s) : s \in CodecProps }

CodecIdleIn == [op |-> "none", q |-> <<>>, d |-> Undef, p |-> EmptyObj]

CodecInputs ==
  /\ cPc = "in"
  /\ cOut = EmptyObj
  /\ \/ \E q \in CodecQueries, d \in CodecDefaults :
          cIn = [op |-> "parse", q |-> q, d |-> d, p |-> EmptyObj]
     \/ \E p \in CodecObjects :
          cIn = [op |-> "build", q |-> <<>>, d |-> Undef, p |-> p]

StoresIdle ==
  /\ entries = <<[path |-> "/", search |-> <<>>, hash |-> ""]>>
  /\ cur = 1
  /\ popPending = FALSE
  /\ stores = <<>>
  /\ calls = 0
  /\ filtered = {}
  /\ last = [op |-> "none"]
  /\ scrollY = 0
  /\ timers = <<>>
  /\ ranId = 0
  /\ apiLog = <<>>
  /\ listeners = {}
  /\ effects = <<>>

scrollVars == <<scrollY, timers, ranId, apiLog>>
lifeVars == <<listeners, effects>>
storeVars ==
  <<entries, cur, popPending, stores, calls, filtered, last, scrollVars,
    lifeVars>>
codecVars == <<cIn, cOut, cPc>>
apiVars == <<aIn, aOut, aPc>>
harnessVars == <<codecVars, apiVars>>

\* no API request is under way
ApiIdleIn == [method |-> "none", config |-> EmptyObj, status |-> 0,
              body |-> Undef]
ApiIdle == aIn = ApiIdleIn /\ aOut = EmptyObj /\ aPc = "off"

\* result = parseUrlParams(defaults) with window.location.search = cIn.q
CodecParse ==
  /\ cPc = "in" /\ cIn.op = "parse"
  /\ cOut' = parseUrlParams(cIn.q, cIn.d)
  /\ cPc' = "parsed"
  /\ UNCHANGED <<cIn, storeVars, apiVars>>

\* qs = buildQueryString(params)
CodecBuild ==
  /\ cPc = "in" /\ cIn.op = "build"
  /\ cOut' = buildQueryString(cIn.p)
  /\ cPc' = "built"
  /\ UNCHANGED <<cIn, storeVars, apiVars>>

\* the string just built becomes the location's query and is parsed with {}
CodecReparse ==
  /\ cPc = "built"
  /\ cOut' = parseUrlParams(cOut, EmptyObj)
  /\ cPc' = "reparsed"
  /\ UNCHANGED <<cIn, storeVars, apiVars>>

CodecNext == CodecParse \/ CodecBuild \/ CodecReparse

CodecInit == CodecInputs /\ StoresIdle /\ ApiIdle

SpecCodec == CodecInit /\ [][CodecNext]_vars

(***************************************************************************)
(* Claims about the codec (checked under SpecCodec)                         *)
(***************************************************************************)
Occurrences(q, key) == Cardinality({i \in 1..Len(q) : q[i][1] = key})
OnlyValue(q, key) == q[CHOOSE i \in 1..Len(q) : q[i][1] = key][2]

\* the coercion the specification gives for a single string value
ExpectedCoercion(s) ==
  IF s = sTrue THEN Bool(TRUE)
  ELSE IF s = sFalse THEN Bool(FALSE)
  ELSE IF IsDigits(s) THEN Num(parseInt(s))
  ELSE Str(s)

\* C1: parseUrlParams(defaults) is the query string merged over the
\* defaults: a key occurring once in the query string holds the URL's coerced
\* value (also when defaults has the key), a key of defaults absent from the
\* query string keeps its default, an empty query string gives defaults.
C1_UrlMergedOverDefaults ==
  cPc = "parsed" =>
    /\ \A key \in Keys \ ProtoKeys :
         /\ Occurrences(cIn.q, key) = 1 =>
              /\ key \in OwnKeys(cOut)
              /\ Own(cOut, key) = ExpectedCoercion(OnlyValue(cIn.q, key))
         /\ (Occurrences(cIn.q, key) = 0 /\ key \in OwnKeys(Spread(cIn.d))) =>
              /\ key \in OwnKeys(cOut)
              /\ Own(cOut, key) = Own(Spread(cIn.d), key)
    /\ Len(cIn.q) = 0 => SameProps(cOut, Spread(cIn.d))

C1_Failing ==
  /\ cPc = "parsed"
  /\ cIn.q = <<<<"page", <<"7">>>>>>
  /\ cIn.d = ObjOf("page", Num(1))
  /\ cOut = ObjOf("page", Arr(<<Num(1), Str(<<"7">>)>>))

IsWholeNumber(v) == v.kind = "num" /\ v.val >= 0

\* the values the round-trip property of the specification ranges over
RoundTripValue(v) == v.kind \in {"str", "bool"} \/ IsWholeNumber(v)

\* a string that the coercion of parseUrlParams leaves a string, and that
\* buildQueryString does not omit
PlainString(v) ==
  /\ v.kind = "str"
  /\ v.val # sEmpty /\ v.val # sTrue /\ v.val # sFalse
  /\ ~IsDigits(v.val)

\* C4 as stated: parse(serialize(P), {}) = P for every P whose values are
\* strings, non-negative integers or booleans (here already without the keys
\* that Object.prototype defines).
C4_RoundTripAsStated ==
  (/\ cPc = "reparsed"
   /\ \A k \in OwnKeys(cIn.p) :
        k \notin ProtoKeys /\ RoundTripValue(Own(cIn.p, k)))
    => SameProps(cOut, cIn.p)

\* C4 (amended): parse(serialize(P), {}) = P for every P whose keys are not
\* names inherited from Object.prototype and whose values are booleans,
\* non-negative integers, or non-empty strings other than "true"/"false"
\* that are not made of decimal digits only.
C4_RoundTrip ==
  (/\ cPc = "reparsed"
   /\ \A k \in OwnKeys(cIn.p) :
        /\ k \notin ProtoKeys
        /\ Own(cIn.p, k).kind = "bool" \/ IsWholeNumber(Own(cIn.p, k))
             \/ PlainString(Own(cIn.p, k)))
    => SameProps(cOut, cIn.p)

C4_Witness ==
  /\ cPc = "reparsed"
  /\ cIn.p = ObjOf2("tag", Str(<<"a">>), "page", Num(12))
  /\ cOut = cIn.p

(***************************************************************************)
(* The browser: session history and location                                *)
(***************************************************************************)
location == entries[cur]

Url(path, search, hash) == [path |-> path, search |-> search, hash |-> hash]

\* the options argument left out
NoOptions == Undef

\* options?.name, as a condition
Option(options, name) ==
  options.kind # "undef" /\ ~Falsy(Get(options, name))

\* the id the next setTimeout call returns: ids count the calls
NextTimerId ==
  IF Len(timers) > 0 THEN timers[Len(timers)].id + 1 ELSE ranId + 1

\* variant: the replace option is ignored, every write is a push
historyUpdate_AlwaysPushes(url, options) ==
  /\ entries' = Append(SubSeq(entries, 1, cur), url)
  /\ cur' = cur + 1

\* if (options?.replace) replaceState(null, '', url) else pushState(...)
historyUpdate(url, options) ==
  IF Option(options, "replace")
  THEN \* window.history.replaceState(null, '', url)
       /\ entries' = [entries EXCEPT ![cur] = url]
       /\ cur' = cur
  ELSE \* window.history.pushState(null, '', url)
       /\ entries' = Append(SubSeq(entries, 1, cur), url)
       /\ cur' = cur + 1

\* variant: no task is queued
scrollCompensation_NoTask(options) ==
  /\ scrollY' = scrollY
  /\ timers' = timers

\* if (!options?.scroll) { const scrollPos = window.scrollY;
\*   setTimeout(() => window.scrollTo(0, scrollPos), 0); }
\* It runs after the history call; pushState and replaceState leave the
\* scroll offset alone, so the offset read here is the offset of before.
scrollCompensation(options) ==
  /\ scrollY' = scrollY
  /\ IF ~Option(options, "scroll")
     THEN timers' = Append(timers, [id |-> NextTimerId, pos |-> scrollY'])
     ELSE timers' = timers

\* the window API accesses of one setUrlParams call, in source order
apiCalls(options) ==
  <<IF Option(options, "replace") THEN "replaceState" ELSE "pushState">>
    \o (IF ~Option(options, "scroll") THEN <<"scrollY", "setTimeout">>
        ELSE <<>>)

\* setUrlParams(params, options): writes the history, then (unless
\* options.scroll) queues the task that scrolls back
setUrlParams(params, options) ==
  LET qs == buildQueryString(params)
      url == Url(location.path, qs, location.hash)
  IN /\ historyUpdate(url, options)
     /\ scrollCompensation(options)
     /\ apiLog' = apiCalls(options)

\* updateUrlParams(updates, options)
updateUrlParams(updates, options) ==
  LET current == parseUrlParams(location.search, Undef)
  IN setUrlParams(Merge(current, updates), options)

\* removeUrlParams(keys, options)
removeUrlParams(keys, options) ==
  LET current == parseUrlParams(location.search, Undef)
      next == Delete(Spread(current), keys)
  IN setUrlParams(next, options)

\* variant: the replace default is dropped
setTableParams_Push(params, options) == setUrlParams(params, options)

\* setTableParams(params, options): { replace: true, ...options }, so a
\* replace given in options wins over the default
setTableParams(params, options) ==
  setUrlParams(params, Merge(ObjOf("replace", Bool(TRUE)), options))

(***************************************************************************)
(* hooks/useUrlState.ts: the hook instances                                 *)
(*   state : the value last given to setState (what the next render shows) *)
(*   snap  : the state of the last render, which the callbacks close over  *)
(*   batch : mutator calls since the last render                            *)
(* An event handler of the page calls up to MaxBatch mutators; React then   *)
(* renders before the next event is handled.                                *)
(***************************************************************************)
Inst == {1, 2}

NoStore ==
  [hook |-> "none", defaults |-> Undef, state |-> Undef, snap |-> Undef,
   batch |-> 0]

Live(i) == stores[i].hook # "none"

\* useState(() => parseUrlParams(defaults)) / parseTableParams(defaults)
parseFor(hook, search, defaults) ==
  IF hook = "table" THEN parseTableParams(search, defaults)
  ELSE parseUrlParams(search, defaults)

Mount(hook, search, defaults) ==
  LET s0 == parseFor(hook, search, defaults)
  IN [hook |-> hook, defaults |-> defaults, state |-> s0, snap |-> s0,
      batch |-> 0]

\* variant: the new state is delivered to every instance
setState_Shared(i, next) ==
  stores' = [j \in Inst |->
               IF j = i THEN [stores[j] EXCEPT !.state = next, !.batch = @ + 1]
               ELSE IF Live(j) THEN [stores[j] EXCEPT !.state = next]
               ELSE stores[j]]

\* setState(next) of instance i, called from one of its callbacks
setState(i, next) ==
  stores' = [stores EXCEPT ![i].state = next, ![i].batch = @ + 1]

CanCall(i, hook) ==
  /\ Live(i) /\ stores[i].hook = hook
  /\ ~popPending
  /\ stores[i].batch < MaxBatch
  /\ calls < MaxCalls

\* what `last` records: the operation, its instance and arguments, the
\* state its callback closed over, the history length and URL before it ran
Op(op, i, arg, pre) ==
  [op |-> op, inst |-> i, arg |-> arg, pre |-> pre, len |-> Len(entries),
   url |-> location, cur |-> cur, scrollY |-> scrollY,
   tasks |-> Len(timers)]

\* bookkeeping of a mutator call
Did(op, i, arg) ==
  /\ calls' = calls + 1
  /\ filtered' = IF op = "setFilter" THEN filtered \cup {arg[1]} ELSE filtered
  /\ last' = Op(op, i, arg, stores[i].snap)

\* variant: set keeps the keys of the state it was called on
Set_Merges(i, params) ==
  /\ CanCall(i, "generic")
  /\ setState(i, Merge(stores[i].snap, params))
  /\ setUrlParams(Merge(stores[i].snap, params), NoOptions)
  /\ Did("set", i, params)
  /\ UNCHANGED <<popPending, ranId, lifeVars, harnessVars>>

\* set(params)
Set(i, params) ==
  /\ CanCall(i, "generic")
  /\ setState(i, params)
  /\ setUrlParams(params, NoOptions)
  /\ Did("set", i, params)
  /\ UNCHANGED <<popPending, ranId, lifeVars, harnessVars>>

\* update(params)
Update(i, params) ==
  /\ CanCall(i, "generic")
  /\ LET next == Merge(stores[i].snap, params)
     IN setState(i, next)
  /\ updateUrlParams(params, NoOptions)
  /\ Did("update", i, params)
  /\ UNCHANGED <<popPending, ranId, lifeVars, harnessVars>>

\* remove(keys)
Remove(i, keys) ==
  /\ CanCall(i, "generic")
  /\ LET next == Delete(Spread(stores[i].snap), keys)
     IN setState(i, next)
  /\ removeUrlParams(keys, NoOptions)
  /\ Did("remove", i, keys)
  /\ UNCHANGED <<popPending, ranId, lifeVars, harnessVars>>

\* reset() of useUrlState
Reset(i) ==
  /\ CanCall(i, "generic")
  /\ LET next == stores[i].defaults
     IN /\ setState(i, next)
        /\ setUrlParams(IF next.kind = "undef" THEN EmptyObj ELSE next,
                        NoOptions)
  /\ Did("reset", i, <<>>)
  /\ UNCHANGED <<popPending, ranId, lifeVars, harnessVars>>

\* setAndSync(params) of useTableUrlState
setAndSync(i, params) ==
  /\ setState(i, params)
  /\ setTableParams(params, NoOptions)

\* setPage(page)
SetPage(i, page) ==
  /\ CanCall(i, "table")
  /\ setAndSync(i, Merge(stores[i].snap, ObjOf("page", page)))
  /\ Did("setPage", i, <<page>>)
  /\ UNCHANGED <<popPending, ranId, lifeVars, harnessVars>>

\* variant: the page is not reset
SetPageSize_KeepsPage(i, pageSize) ==
  /\ CanCall(i, "table")
  /\ setAndSync(i, Merge(stores[i].snap, ObjOf("pageSize", pageSize)))
  /\ Did("setPageSize", i, <<pageSize>>)
  /\ UNCHANGED <<popPending, ranId, lifeVars, harnessVars>>

\* setPageSize(pageSize)
SetPageSize(i, pageSize) ==
  /\ CanCall(i, "table")
  /\ setAndSync(i, Merge(stores[i].snap,
                         ObjOf2("page", Num(1), "pageSize", pageSize)))
  /\ Did("setPageSize", i, <<pageSize>>)
  /\ UNCHANGED <<popPending, ranId, lifeVars, harnessVars>>

\* variant: the empty string is stored instead of undefined
SetSearch_KeepsEmpty(i, search) ==
  /\ CanCall(i, "table")
  /\ setAndSync(i, Merge(stores[i].snap,
                         ObjOf2("page", Num(1), "search", Str(search))))
  /\ Did("setSearch", i, <<search>>)
  /\ UNCHANGED <<popPending, ranId, lifeVars, harnessVars>>

\* setSearch(search): search || undefined
SetSearch(i, search) ==
  /\ CanCall(i, "table")
  /\ setAndSync(i, Merge(stores[i].snap,
                         ObjOf2("page", Num(1), "search",
                                IF search = sEmpty THEN Undef
                                ELSE Str(search))))
  /\ Did("setSearch", i, <<search>>)
  /\ UNCHANGED <<popPending, ranId, lifeVars, harnessVars>>

\* variant: sorting resets the page like the other mutators
SetSort_ResetsPage(i, sortField, sortOrder) ==
  /\ CanCall(i, "table")
  /\ setAndSync(i, Merge(Merge(stores[i].snap, ObjOf("page", Num(1))),
                         ObjOf2("sortField", sortField,
                                "sortOrder", sortOrder)))
  /\ Did("setSort", i, <<sortField, sortOrder>>)
  /\ UNCHANGED <<popPending, ranId, lifeVars, harnessVars>>

\* setSort(sortField, sortOrder)
SetSort(i, sortField, sortOrder) ==
  /\ CanCall(i, "table")
  /\ setAndSync(i, Merge(stores[i].snap,
                         ObjOf2("sortField", sortField,
                                "sortOrder", sortOrder)))
  /\ Did("setSort", i, <<sortField, sortOrder>>)
  /\ UNCHANGED <<popPending, ranId, lifeVars, harnessVars>>

\* variant: the page is not reset
SetFilter_KeepsPage(i, key, value) ==
  /\ CanCall(i, "table")
  /\ setAndSync(i, Put(Spread(stores[i].snap), key,
                       IF value = Str(sEmpty) THEN Undef ELSE value))
  /\ Did("setFilter", i, <<key, value>>)
  /\ UNCHANGED <<popPending, ranId, lifeVars, harnessVars>>

\* setFilter(key, value):
\*   { ...state, page: 1, [key]: value === '' ? undefined : value }
SetFilter(i, key, value) ==
  /\ CanCall(i, "table")
  /\ setAndSync(i, Put(Merge(stores[i].snap, ObjOf("page", Num(1))), key,
                       IF value = Str(sEmpty) THEN Undef ELSE value))
  /\ Did("setFilter", i, <<key, value>>)
  /\ UNCHANGED <<popPending, ranId, lifeVars, harnessVars>>

\* variant: reset() keeps the keys of the state it was called on
TableReset_KeepsState(i) ==
  /\ CanCall(i, "table")
  /\ LET next == Merge(stores[i].snap,
                       Merge(ObjOf2("page", Num(1), "pageSize", Num(10)),
                             stores[i].defaults))
     IN /\ setState(i, next)
        /\ setTableParams(next, NoOptions)
  /\ Did("tableReset", i, <<>>)
  /\ UNCHANGED <<popPending, ranId, lifeVars, harnessVars>>

\* reset() of useTableUrlState
TableReset(i) ==
  /\ CanCall(i, "table")
  /\ LET next == Merge(ObjOf2("page", Num(1), "pageSize", Num(10)),
                       stores[i].defaults)
     IN /\ setState(i, next)
        /\ setTableParams(next, NoOptions)
  /\ Did("tableReset", i, <<>>)
  /\ UNCHANGED <<popPending, ranId, lifeVars, harnessVars>>

\* React renders instance i: the callbacks are re-created over the new state
Render(i) ==
  /\ Live(i)
  /\ stores[i].batch > 0
  /\ stores' = [stores EXCEPT ![i].snap = stores[i].state, ![i].batch = 0]
  /\ last' = Op("render", i, <<>>, Undef)
  /\ UNCHANGED <<entries, cur, popPending, calls, filtered, scrollVars,
                 lifeVars, harnessVars>>

\* the user goes back (d = -1) or forward (d = 1) in the session history
Traverse(d) ==
  /\ ~popPending
  /\ cur + d \in 1..Len(entries)
  /\ \A i \in Inst : stores[i].batch = 0
  /\ cur' = cur + d
  /\ popPending' = TRUE
  /\ last' = Op("traverse", 0, <<d>>, Undef)
  /\ UNCHANGED <<entries, stores, calls, filtered, scrollVars, lifeVars,
                 harnessVars>>

\* handlePopState of one instance: the state it gives to setState
handlePopState(st) == parseFor(st.hook, location.search, st.defaults)

\* the handlers registered for instance i
ListenersOf(i) == {h \in listeners : h.inst = i}

\* instance i after the popstate event went to its handlers: each calls
\* setState with the defaults it closed over (the one registered last calls
\* last); setState of an unmounted instance does nothing
dispatchTo(i) ==
  IF Live(i) /\ ListenersOf(i) # {}
  THEN LET h == CHOOSE x \in ListenersOf(i) :
                  \A y \in ListenersOf(i) : y.gen <= x.gen
           next == handlePopState([stores[i] EXCEPT !.defaults = h.defaults])
       IN [stores[i] EXCEPT !.state = next, !.snap = next]
  ELSE stores[i]

\* variant: the handler also writes the state it parsed back to the URL
PopState_Writes ==
  /\ popPending
  /\ stores' = [i \in Inst |-> dispatchTo(i)]
  /\ setUrlParams(handlePopState(stores[1]), NoOptions)
  /\ popPending' = FALSE
  /\ last' = Op("popstate", 0, <<>>, Undef)
  /\ UNCHANGED <<calls, filtered, ranId, lifeVars, harnessVars>>

\* the popstate event is dispatched to the listener of every live instance;
\* React renders the new state before the next event
PopState ==
  /\ popPending
  /\ stores' = [i \in Inst |-> dispatchTo(i)]
  /\ popPending' = FALSE
  /\ last' = Op("popstate", 0, <<>>, Undef)
  /\ UNCHANGED <<entries, cur, calls, filtered, scrollVars, lifeVars,
                 harnessVars>>

\* variant: the event loop runs the newest queued timer task first
RunTimer_NewestFirst ==
  /\ Len(timers) > 0
  /\ ~popPending
  /\ \A i \in Inst : stores[i].batch = 0
  /\ scrollY' = timers[Len(timers)].pos
  /\ ranId' = timers[Len(timers)].id
  /\ timers' = SubSeq(timers, 1, Len(timers) - 1)
  /\ last' = Op("timer", 0,
                <<timers[Len(timers)].id, timers[Len(timers)].pos>>, Undef)
  /\ UNCHANGED <<entries, cur, popPending, stores, calls, filtered, apiLog,
                 lifeVars, harnessVars>>

\* the event loop runs the oldest queued timer task: window.scrollTo(0, pos)
RunTimer ==
  /\ Len(timers) > 0
  /\ ~popPending
  /\ \A i \in Inst : stores[i].batch = 0
  /\ scrollY' = Head(timers).pos
  /\ ranId' = Head(timers).id
  /\ timers' = Tail(timers)
  /\ last' = Op("timer", 0, <<Head(timers).id, Head(timers).pos>>, Undef)
  /\ UNCHANGED <<entries, cur, popPending, stores, calls, filtered, apiLog,
                 lifeVars, harnessVars>>

(***************************************************************************)
(* The hooks in a page: initial states and inputs                           *)
(***************************************************************************)
Pair(k, s) == <<k, s>>

GenericQueries ==
  { <<>>, <<Pair("tab", <<"n">>)>>, <<Pair("tag", <<"7">>)>>,
    <<Pair("tab", sEmpty)>> }
GenericDefaults ==
  { Undef, ObjOf("tab", Str(<<"a">>)),
    ObjOf2("tab", Str(<<"a">>), "tag", Str(sEmpty)) }
GenericObjects ==
  { EmptyObj, ObjOf("tab", Str(<<"n">>)), ObjOf("tag", Str(<<"b">>)),
    ObjOf("tag", Str(sEmpty)) }
GenericKeySets == { {"tab"}, {"tag"} }

TableQueries ==
  { <<>>, <<Pair("page", <<"2">>)>>, <<Pair("tag", <<"a">>)>> }
TableDefaults == { Undef, ObjOf("pageSize", Num(20)) }
PageArgs == { Num(3) }
PageSizeArgs == { Num(50) }
SearchArgs == { sEmpty, <<"x">> }
SortArgs == { <<Str(<<"n">>), Str(<<"a", "s", "c">>)>> }
FilterKeys == { "tag", "page" }
FilterValues == { Str(sEmpty), Num(2) }

InitPath == "/users"
InitHashes == { "", "#top" }

\* window.location.search for a list of pairs: '' or '?...'
Search(pairs) == IF Len(pairs) > 0 THEN <<QMark>> \o pairs ELSE <<>>

NoEffect == [gen |-> 0, reg |-> 0]

\* the popstate handler the effect of a render with defaults object `gen`
\* registers
Handler(i, gen, defaults) == [inst |-> i, gen |-> gen, defaults |-> defaults]

\* instance 1 is mounted and its effect has run
HookInit(hook, queries, defaultsSet) ==
  \E h \in InitHashes, n \in 1..2 :
    \E qs \in [1..n -> queries], c \in 1..n, d \in defaultsSet :
      /\ entries = [j \in 1..n |-> Url(InitPath, Search(qs[j]), h)]
      /\ cur = c
      /\ stores = [i \in Inst |->
                     IF i = 1 THEN Mount(hook, Search(qs[c]), d) ELSE NoStore]
      /\ listeners = {Handler(1, 1, d)}
      /\ effects = [i \in Inst |->
                      IF i = 1 THEN [gen |-> 1, reg |-> 1] ELSE NoEffect]

CodecIdle == cIn = CodecIdleIn /\ cOut = EmptyObj /\ cPc = "off"

InitRest ==
  /\ popPending = FALSE
  /\ calls = 0
  /\ filtered = {}
  /\ scrollY = 0
  /\ timers = <<>>
  /\ ranId = 0
  /\ apiLog = <<>>
  /\ last = Op("mount", 1, <<>>, Undef)
  /\ CodecIdle
  /\ ApiIdle

Init ==
  /\ \/ HookInit("generic", GenericQueries, GenericDefaults)
     \/ HookInit("table", TableQueries, TableDefaults)
  /\ InitRest

Next ==
  \/ \E i \in Inst, p \in GenericObjects : Set(i, p)
  \/ \E i \in Inst, p \in GenericObjects : Update(i, p)
  \/ \E i \in Inst, ks \in GenericKeySets : Remove(i, ks)
  \/ \E i \in Inst : Reset(i)
  \/ \E i \in Inst, page \in PageArgs : SetPage(i, page)
  \/ \E i \in Inst, size \in PageSizeArgs : SetPageSize(i, size)
  \/ \E i \in Inst, s \in SearchArgs : SetSearch(i, s)
  \/ \E i \in Inst, so \in SortArgs : SetSort(i, so[1], so[2])
  \/ \E i \in Inst, k \in FilterKeys, v \in FilterValues : SetFilter(i, k, v)
  \/ \E i \in Inst : TableReset(i)
  \/ \E i \in Inst : Render(i)
  \/ \E d \in {-1, 1} : Traverse(d)
  \/ PopState
  \/ RunTimer

Spec == Init /\ [][Next]_vars

(***************************************************************************)
(* The lifecycle of a hook instance: mount, effects, re-render, unmount.     *)
(* useEffect(..., [defaults]) runs after the commit; when the identity of   *)
(* defaults changed (Object.is) it first runs the cleanup of the previous   *)
(* effect (removeEventListener of the old handler).  A render that passes   *)
(* the same object, or undefined again, leaves the effect alone.  At        *)
(* unmount the commit removes the component and the cleanup of its effect   *)
(* runs as a passive effect, after the commit: at once in a synchronous     *)
(* flush, in a later task otherwise, so other events can come in between.   *)
(***************************************************************************)
\* the handler instance i has registered (none: the empty set)
Registered(i) ==
  {h \in listeners : h.inst = i /\ h.gen = effects[i].reg}

\* variant: the first render also writes its state to the URL
MountHook_Writes(i, hook, defaults) ==
  /\ ~Live(i)
  /\ effects[i] = NoEffect
  /\ ~popPending
  /\ stores' = [stores EXCEPT ![i] = Mount(hook, location.search, defaults)]
  /\ effects' = [effects EXCEPT ![i] = [gen |-> 1, reg |-> 0]]
  /\ setUrlParams(Mount(hook, location.search, defaults).state,
                  ObjOf("replace", Bool(TRUE)))
  /\ last' = Op("mountHook", i, <<hook>>, Undef)
  /\ UNCHANGED <<popPending, calls, filtered, ranId, listeners, harnessVars>>

\* a component that calls the hook mounts: first render
MountHook(i, hook, defaults) ==
  /\ ~Live(i)
  /\ effects[i] = NoEffect
  /\ ~popPending
  /\ stores' = [stores EXCEPT ![i] = Mount(hook, location.search, defaults)]
  /\ effects' = [effects EXCEPT ![i] = [gen |-> 1, reg |-> 0]]
  /\ last' = Op("mountHook", i, <<hook>>, Undef)
  /\ UNCHANGED <<entries, cur, popPending, calls, filtered, scrollVars,
                 listeners, harnessVars>>

\* variant: the effect registers its handler without the cleanup of the
\* previous effect
RunEffects_NoCleanup(i) ==
  /\ Live(i)
  /\ effects[i].reg # effects[i].gen
  /\ listeners' =
       listeners \cup {Handler(i, effects[i].gen, stores[i].defaults)}
  /\ effects' = [effects EXCEPT ![i].reg = effects[i].gen]
  /\ last' = Op("effects", i, <<>>, Undef)
  /\ UNCHANGED <<entries, cur, popPending, stores, calls, filtered,
                 scrollVars, harnessVars>>

\* the passive effects of the last commit of instance i run: the cleanup of
\* the previous effect, then addEventListener of the new handler
RunEffects(i) ==
  /\ Live(i)
  /\ effects[i].reg # effects[i].gen
  /\ listeners' = (listeners \ Registered(i))
                    \cup {Handler(i, effects[i].gen, stores[i].defaults)}
  /\ effects' = [effects EXCEPT ![i].reg = effects[i].gen]
  /\ last' = Op("effects", i, <<>>, Undef)
  /\ UNCHANGED <<entries, cur, popPending, stores, calls, filtered,
                 scrollVars, harnessVars>>

\* the owner renders again and passes defaults; the state is kept (the
\* useState initializer runs on the first render only).  `same` says that
\* the value passed is identical (Object.is) to the one of the render
\* before: the same object again, or undefined again; then the dependency
\* [defaults] is unchanged and the effect does not run again.
Rerender(i, defaults, same) ==
  /\ Live(i)
  /\ ~popPending
  /\ effects[i].reg = effects[i].gen
  /\ same => defaults = stores[i].defaults
  /\ (defaults = Undef /\ stores[i].defaults = Undef) => same
  /\ ~same => effects[i].gen < MaxRenders
  /\ stores' = [stores EXCEPT ![i].defaults = defaults]
  /\ effects' = [effects EXCEPT ![i].gen = IF same THEN @ ELSE @ + 1]
  /\ last' = Op("rerender", i, <<same>>, Undef)
  /\ UNCHANGED <<entries, cur, popPending, calls, filtered, scrollVars,
                 listeners, harnessVars>>

\* the owning component unmounts: the commit removes the component; the
\* cleanup of its effect is still to run (reg keeps the handler it removes)
Unmount(i) ==
  /\ Live(i)
  /\ ~popPending
  /\ effects[i].reg = effects[i].gen
  /\ stores' = [stores EXCEPT ![i] = NoStore]
  /\ effects' = [effects EXCEPT ![i] = [gen |-> 0, reg |-> effects[i].reg]]
  /\ last' = Op("unmount", i, <<>>, Undef)
  /\ UNCHANGED <<entries, cur, popPending, calls, filtered, scrollVars,
                 listeners, harnessVars>>

\* the cleanup of the effect of an unmounted instance runs:
\* window.removeEventListener('popstate', handlePopState)
Cleanup(i) ==
  /\ ~Live(i)
  /\ effects[i].reg # 0
  /\ listeners' = listeners \ Registered(i)
  /\ effects' = [effects EXCEPT ![i] = NoEffect]
  /\ last' = Op("cleanup", i, <<>>, Undef)
  /\ UNCHANGED <<entries, cur, popPending, stores, calls, filtered,
                 scrollVars, harnessVars>>

LifeDefaults(hook) ==
  IF hook = "table" THEN TableDefaults
  ELSE { Undef, ObjOf("tab", Str(<<"a">>)) }

LifeInit ==
  /\ \E q \in TableQueries, c \in 1..2 :
       /\ entries = <<Url(InitPath, <<>>, ""), Url(InitPath, Search(q), "")>>
       /\ cur = c
  /\ stores = [i \in Inst |-> NoStore]
  /\ listeners = {}
  /\ effects = [i \in Inst |-> NoEffect]
  /\ popPending = FALSE
  /\ calls = 0
  /\ filtered = {}
  /\ scrollY = 0
  /\ timers = <<>>
  /\ ranId = 0
  /\ apiLog = <<>>
  /\ last = Op("load", 0, <<>>, Undef)
  /\ CodecIdle
  /\ ApiIdle

LifeNext ==
  \/ \E i \in Inst, hook \in {"generic", "table"} :
       \E d \in LifeDefaults(hook) : MountHook(i, hook, d)
  \/ \E i \in Inst : RunEffects(i)
  \/ \E i \in Inst, same \in BOOLEAN :
       \E d \in LifeDefaults(stores[i].hook) : Rerender(i, d, same)
  \/ \E i \in Inst : Unmount(i)
  \/ \E i \in Inst : Cleanup(i)
  \/ \E d \in {-1, 1} : Traverse(d)
  \/ PopState

\* React runs the passive effects it has scheduled: a pending cleanup runs
SpecLife ==
  LifeInit /\ [][LifeNext]_vars /\ WF_vars(Cleanup(1)) /\ WF_vars(Cleanup(2))

(***************************************************************************)
(* The library called directly (no hook): setUrlParams, updateUrlParams,    *)
(* removeUrlParams, setTableParams with their options, the user scrolling,  *)
(* the timer tasks, back and forward.  The event loop runs every queued     *)
(* task.                                                                    *)
(***************************************************************************)
LibCall(op, arg, options) ==
  /\ ~popPending
  /\ calls < MaxCalls
  /\ calls' = calls + 1
  /\ last' = Op(op, 0, <<arg, options>>, Undef)
  /\ UNCHANGED <<popPending, stores, filtered, ranId, lifeVars, harnessVars>>

\* setUrlParams(params, options)
Apply(params, options) ==
  /\ setUrlParams(params, options)
  /\ LibCall("setUrlParams", params, options)

\* updateUrlParams(updates, options)
ApplyUpdate(updates, options) ==
  /\ updateUrlParams(updates, options)
  /\ LibCall("updateUrlParams", updates, options)

\* removeUrlParams(keys, options)
ApplyRemove(keys, options) ==
  /\ removeUrlParams(keys, options)
  /\ LibCall("removeUrlParams", keys, options)

\* setTableParams(params, options)
ApplyTable(params, options) ==
  /\ setTableParams(params, options)
  /\ LibCall("setTableParams", params, options)

\* the user scrolls the page to offset y
UserScroll(y) ==
  /\ ~popPending
  /\ y # scrollY
  /\ scrollY' = y
  /\ last' = Op("scroll", 0, <<y>>, Undef)
  /\ UNCHANGED <<entries, cur, popPending, stores, calls, filtered, timers,
                 ranId, apiLog, lifeVars, harnessVars>>

LibQuery == <<Pair("tab", <<"n">>), Pair("page", <<"2">>), Pair("tag", sEmpty)>>
LibObjects ==
  { ObjOf("tag", Str(sEmpty)),
    ObjOf2("tab", Str(<<"a">>), "tag", Arr(<<Str(<<"x">>), Num(7)>>)) }
LibOptions ==
  { NoOptions, ObjOf("replace", Bool(TRUE)), ObjOf("scroll", Bool(TRUE)),
    ObjOf2("replace", Bool(TRUE), "scroll", Bool(TRUE)) }
LibTableObjects == { ObjOf2("page", Num(3), "pageSize", Num(10)) }
LibTableOptions == { NoOptions, ObjOf("replace", Bool(FALSE)) }
LibUpdates == { ObjOf("page", Num(3)) }
LibKeySets == { {"tab"} }
ScrollOffsets == { 0, 40 }

LibHash == "#top"

\* the page was opened at /users#top and then navigated to
\* /users?tab=n&page=2&tag=#top; the user may have gone back
LibInit ==
  /\ \E c \in 1..2 :
       /\ entries = <<Url(InitPath, <<>>, LibHash),
                      Url(InitPath, Search(LibQuery), LibHash)>>
       /\ cur = c
  /\ stores = [i \in Inst |-> NoStore]
  /\ listeners = {}
  /\ effects = [i \in Inst |-> NoEffect]
  /\ popPending = FALSE
  /\ calls = 0
  /\ filtered = {}
  /\ scrollY = 0
  /\ timers = <<>>
  /\ ranId = 0
  /\ apiLog = <<>>
  /\ last = Op("load", 0, <<>>, Undef)
  /\ CodecIdle
  /\ ApiIdle

LibNext ==
  \/ \E p \in LibObjects, o \in LibOptions : Apply(p, o)
  \/ \E p \in LibUpdates : ApplyUpdate(p, NoOptions)
  \/ \E ks \in LibKeySets : ApplyRemove(ks, NoOptions)
  \/ \E p \in LibTableObjects, o \in LibTableOptions : ApplyTable(p, o)
  \/ \E y \in ScrollOffsets : UserScroll(y)
  \/ RunTimer
  \/ \E d \in {-1, 1} : Traverse(d)
  \/ PopState

\* the browser dispatches the popstate event of a traversal; a queued timer
\* task is run by the event loop, however often a traversal is in flight
\* when it looks
SpecLib ==
  LibInit /\ [][LibNext]_vars /\ WF_vars(PopState) /\ SF_vars(RunTimer)

(***************************************************************************)
(* Two stores on one page: a generic store (instance 1) and a table store   *)
(* (instance 2), for example in nested components, on the same location.    *)
(***************************************************************************)
PairObjects == { ObjOf("tab", Str(<<"n">>)), ObjOf("tag", Str(<<"b">>)) }

PairInit ==
  /\ \E n \in 1..2 :
       \E qs \in [1..n -> TableQueries], c \in 1..n,
          d1 \in LifeDefaults("generic"), d2 \in LifeDefaults("table") :
         /\ entries = [j \in 1..n |-> Url(InitPath, Search(qs[j]), "")]
         /\ cur = c
         /\ stores = [i \in Inst |->
                        IF i = 1 THEN Mount("generic", Search(qs[c]), d1)
                        ELSE Mount("table", Search(qs[c]), d2)]
         /\ listeners = {Handler(1, 1, d1), Handler(2, 1, d2)}
  /\ effects = [i \in Inst |-> [gen |-> 1, reg |-> 1]]
  /\ popPending = FALSE
  /\ calls = 0
  /\ filtered = {}
  /\ scrollY = 0
  /\ timers = <<>>
  /\ ranId = 0
  /\ apiLog = <<>>
  /\ last = Op("mount", 0, <<>>, Undef)
  /\ CodecIdle
  /\ ApiIdle

PairNext ==
  \/ \E p \in PairObjects : Set(1, p)
  \/ \E page \in PageArgs : SetPage(2, page)
  \/ \E s \in SearchArgs : SetSearch(2, s)
  \/ \E i \in Inst : Render(i)
  \/ \E d \in {-1, 1} : Traverse(d)
  \/ PopState

SpecPair == PairInit /\ [][PairNext]_vars

(***************************************************************************)
(* Claims about the hooks (checked under Spec)                              *)
(* "The state before the call" of a mutator is the state of the render     *)
(* whose callback is called (last.pre); "the state after" is the value the *)
(* call gives to setState (stores[i].state).                                *)
(***************************************************************************)
StateOf(i) == stores[i].state

IsPositiveInteger(v) == v.kind = "num" /\ v.val >= 1

HasKey(search, key) == \E j \in 1..Len(search) : search[j][1] = key

\* obj and pre agree on every key outside `except`: same own keys, same values
SameElsewhere(obj, pre, except) ==
  \A k \in (OwnKeys(obj) \cup OwnKeys(pre)) \ except :
    /\ k \in OwnKeys(obj) /\ k \in OwnKeys(pre)
    /\ Own(obj, k) = Own(pre, k)

\* C2: in every state of a table store that was not given page or pageSize
\* through setFilter, state.page and state.pageSize are positive integers.
C2_PageIsPositiveInteger ==
  \A i \in Inst :
    (stores[i].hook = "table" /\ filtered \cap {"page", "pageSize"} = {}) =>
      /\ IsPositiveInteger(Get(StateOf(i), "page"))
      /\ IsPositiveInteger(Get(StateOf(i), "pageSize"))

\* C3: after update(partial) the state is the previous state with partial's
\* keys overwritten, and the query string of the location is the
\* serialization of that state.
C3_UpdateKeepsUrlInSync ==
  last.op = "update" =>
    /\ SameProps(StateOf(last.inst), Merge(last.pre, last.arg))
    /\ location.search = buildQueryString(StateOf(last.inst))

TableMutators == {"setPage", "setPageSize", "setSearch", "setSort", "setFilter"}

\* C5 as stated: each table mutator adds exactly one history entry.
C5_MutatorPushes ==
  last.op \in TableMutators => Len(entries) = last.len + 1

\* C5 (amended): each table mutator writes the serialization of the state it
\* sets over the current history entry (replace): the history keeps its
\* length and position, and the current entry's query string is
\* serialize(state).
C5_MutatorReplaces ==
  last.op \in TableMutators =>
    /\ Len(entries) = last.len
    /\ cur = last.cur
    /\ location.search = buildQueryString(StateOf(last.inst))
    /\ location.path = last.url.path /\ location.hash = last.url.hash

C5_Witness ==
  /\ last.op = "setPage"
  /\ Len(entries) = 2 /\ last.len = 2
  /\ location.search # last.url.search
  /\ HasKey(location.search, "page")

\* C6: when the popstate event has been handled, every live store's state is
\* parse(current query string, defaults) (with the table base defaults for
\* the table store), and the handler wrote nothing: the history length and
\* the current URL are what they were before it ran.
C6_PopStateReparsesWithoutWrite ==
  last.op = "popstate" =>
    /\ Len(entries) = last.len
    /\ location = last.url
    /\ \A i \in Inst :
         Live(i) =>
           SameProps(StateOf(i),
             parseUrlParams(location.search,
                            IF stores[i].hook = "table"
                            THEN Merge(ObjOf2("page", Num(1),
                                              "pageSize", Num(10)),
                                       stores[i].defaults)
                            ELSE stores[i].defaults))

C6_Witness ==
  /\ last.op = "popstate"
  /\ stores[1].hook = "table"
  /\ calls > 0
  /\ HasKey(location.search, "search")
  /\ Get(StateOf(1), "search") = Str(<<"x">>)

\* C7: setSearch(s) yields page = 1 and search = s for a non-empty s, and
\* page = 1 and search absent (undefined in the state, no pair in the URL)
\* for the empty string; every other key is as before the call.
C7_SetSearchResetsPage ==
  last.op = "setSearch" =>
    LET st == StateOf(last.inst)
        s == last.arg[1]
    IN /\ Get(st, "page") = Num(1)
       /\ s # sEmpty => Get(st, "search") = Str(s)
       /\ s = sEmpty => /\ Get(st, "search") = Undef
                        /\ ~HasKey(location.search, "search")
       /\ SameElsewhere(st, last.pre, {"page", "search"})

C7_Witness ==
  /\ last.op = "setSearch" /\ last.arg[1] = <<"x">>
  /\ Get(last.pre, "page") = Num(3)
  /\ Get(StateOf(1), "page") = Num(1)
  /\ Get(StateOf(1), "search") = Str(<<"x">>)

\* C8: setPageSize(m) yields page = 1 and pageSize = m; every other key is
\* as before the call.
C8_SetPageSizeResetsPage ==
  last.op = "setPageSize" =>
    LET st == StateOf(last.inst)
    IN /\ Get(st, "page") = Num(1)
       /\ Get(st, "pageSize") = last.arg[1]
       /\ SameElsewhere(st, last.pre, {"page", "pageSize"})

C8_Witness ==
  /\ last.op = "setPageSize" /\ last.arg[1] = Num(50)
  /\ Get(last.pre, "page") = Num(3)
  /\ Get(StateOf(1), "page") = Num(1)
  /\ Get(StateOf(1), "pageSize") = Num(50)

\* what setFilter(key, value) is to yield, for the keys in `keys`
SetFilterYields(keys) ==
  (last.op = "setFilter" /\ last.arg[1] \in keys) =>
    LET st == StateOf(last.inst)
        key == last.arg[1]
        value == last.arg[2]
    IN /\ Get(st, "page") = Num(1)
       /\ value # Str(sEmpty) => Get(st, key) = value
       /\ value = Str(sEmpty) => /\ Get(st, key) = Undef
                                 /\ ~HasKey(location.search, key)
       /\ SameElsewhere(st, last.pre, {"page", key})

\* C9 as stated: for every key and value, setFilter(key, value) yields
\* page = 1 and key mapped to value (absent for the empty string), no other
\* key changed.
C9_SetFilterEveryKey == SetFilterYields(Keys)

\* what setFilter("page", value) yields: the computed key comes after
\* page: 1 in the object literal, so page is value, or undefined (and not
\* in the URL) for the empty string; no other key changed
SetFilterOnPage ==
  (last.op = "setFilter" /\ last.arg[1] = "page") =>
    LET st == StateOf(last.inst)
        value == last.arg[2]
    IN /\ value # Str(sEmpty) => Get(st, "page") = value
       /\ value = Str(sEmpty) => /\ Get(st, "page") = Undef
                                 /\ ~HasKey(location.search, "page")
       /\ SameElsewhere(st, last.pre, {"page"})

\* C9 (amended): for every key other than "page" and every value,
\* setFilter(key, value) yields page = 1 and key mapped to value (absent for
\* the empty string), no other key changed; setFilter("page", value) yields
\* page = value (absent for the empty string), not 1, no other key changed.
C9_SetFilterResetsPage ==
  SetFilterYields(Keys \ {"page"}) /\ SetFilterOnPage

C9_Witness ==
  /\ last.op = "setFilter" /\ last.arg = <<"tag", Num(2)>>
  /\ Get(last.pre, "page") = Num(3)
  /\ Get(StateOf(1), "page") = Num(1)
  /\ Get(StateOf(1), "tag") = Num(2)

\* C10: setSort(field, order) sets sortField and sortOrder and changes no
\* other key: page, pageSize, search and the filter keys are as before the
\* call.
C10_SetSortKeepsPage ==
  last.op = "setSort" =>
    LET st == StateOf(last.inst)
    IN /\ Get(st, "sortField") = last.arg[1]
       /\ Get(st, "sortOrder") = last.arg[2]
       /\ SameElsewhere(st, last.pre, {"sortField", "sortOrder"})

C10_Witness ==
  /\ last.op = "setSort"
  /\ Get(last.pre, "page") = Num(3)
  /\ Get(StateOf(1), "page") = Num(3)
  /\ Get(StateOf(1), "sortField") = Str(<<"n">>)

\* what reset() of a table store with these defaults yields
TableResetState(defaults) ==
  Merge(ObjOf2("page", Num(1), "pageSize", Num(10)), defaults)

\* C11: from any table state, reset() yields exactly
\* {page: 1, pageSize: 10, ...defaults} (no search, sort or filter key of the
\* state before survives) and writes its serialization; a reset() called on
\* the state and URL a reset() left yields the identical state and the
\* identical URL, and adds no history entry.
C11_TableResetIdempotent ==
  last.op = "tableReset" =>
    LET r == TableResetState(stores[last.inst].defaults)
    IN /\ SameProps(StateOf(last.inst), r)
       /\ location = Url(last.url.path, buildQueryString(r), last.url.hash)
       /\ (SameProps(last.pre, r) /\ last.url.search = buildQueryString(r))
            => /\ SameProps(StateOf(last.inst), last.pre)
               /\ location = last.url
               /\ Len(entries) = last.len

\* a second reset() in a row, of a store with defaults {pageSize: 20}
C11_Witness ==
  /\ last.op = "tableReset"
  /\ calls = 2
  /\ stores[1].defaults = ObjOf("pageSize", Num(20))
  /\ last.pre = TableResetState(stores[1].defaults)
  /\ last.url.search = buildQueryString(last.pre)
  /\ StateOf(1) = last.pre
  /\ location = last.url

\* the history after one pushState from the state `last` recorded: the new
\* entry follows the entry that was current, is the current and the last
\* entry, and the entry that was current is as it was
PushedOneEntry ==
  /\ cur = last.cur + 1
  /\ Len(entries) = cur
  /\ entries[last.cur] = last.url

\* C12: after set(P) the state is exactly P, the location's query string is
\* serialize(P) (path and fragment as before), and exactly one new history
\* entry has been pushed.
C12_SetReplacesStateAndPushes ==
  last.op = "set" =>
    /\ SameProps(StateOf(last.inst), last.arg)
    /\ location = Url(last.url.path, buildQueryString(last.arg), last.url.hash)
    /\ PushedOneEntry

\* set({tag: 'b'}) on a state that held tab, from defaults that hold tab
C12_Witness ==
  /\ last.op = "set"
  /\ last.arg = ObjOf("tag", Str(<<"b">>))
  /\ "tab" \in OwnKeys(last.pre)
  /\ stores[1].defaults # Undef
  /\ StateOf(1) = last.arg
  /\ location.search = <<QMark, Pair("tag", <<"b">>)>>

\* C13: after reset() of a generic store the state equals defaults, or the
\* empty Parameter Object when the store was created without defaults (never
\* undefined), and the URL written is serialize of that state, pushed as a
\* new history entry.
C13_ResetYieldsParameterObject ==
  last.op = "reset" =>
    LET d == stores[last.inst].defaults
        expected == IF d = Undef THEN EmptyObj ELSE d
    IN /\ StateOf(last.inst) # Undef
       /\ SameProps(StateOf(last.inst), expected)
       /\ location =
            Url(last.url.path, buildQueryString(expected), last.url.hash)
       /\ PushedOneEntry

(***************************************************************************)
(* Claims about the lifecycle (checked under SpecLife)                      *)
(***************************************************************************)
EffectsSettled(i) == Live(i) /\ effects[i].reg = effects[i].gen

\* instance i is unmounted and the cleanup of its effect has run
TornDown(i) == ~Live(i) /\ effects[i] = NoEffect

\* the listener counts of C14, read at every moment: none as soon as the
\* instance is unmounted
C14_NoneOnceUnmounted ==
  \A i \in Inst :
    /\ EffectsSettled(i) =>
         ListenersOf(i) =
           {Handler(i, effects[i].gen, stores[i].defaults)}
    /\ ~Live(i) => ListenersOf(i) = {}

\* a popstate event leaves every unmounted instance as it is
C14_PopStateSparesTornDown ==
  (popPending /\ ~popPending') =>
    \A i \in Inst : ~Live(i) => stores'[i] = stores[i]

\* C14 as stated: exactly one listener while live and settled, none at any
\* moment after the owner was torn down, and a navigation event after the
\* teardown changes no store state.
C14_SubscriptionAsStated ==
  []C14_NoneOnceUnmounted /\ [][C14_PopStateSparesTornDown]_vars

\* the listener counts of C14: none once the cleanup has run
C14_OneListener ==
  \A i \in Inst :
    /\ EffectsSettled(i) =>
         ListenersOf(i) =
           {Handler(i, effects[i].gen, stores[i].defaults)}
    /\ TornDown(i) => ListenersOf(i) = {}

\* the listener of an unmounted instance is removed in the end
C14_CleanupRuns ==
  \A i \in Inst :
    (~Live(i) /\ ListenersOf(i) # {}) ~> (ListenersOf(i) = {})

\* C14 (amended): while a store instance is live and its effects have run
\* (also after a re-render with a new defaults object) exactly one popstate
\* listener is registered for it, the one of its latest render; once the
\* owner is unmounted the cleanup of the effect runs (at once or in a later
\* task) and from then on none remains; a navigation event after the
\* unmount, before or after the cleanup, changes no store state.
C14_SubscriptionLifecycle ==
  /\ []C14_OneListener
  /\ [][C14_PopStateSparesTornDown]_vars
  /\ C14_CleanupRuns

\* instance 1 was re-rendered with a new defaults object and its effects
\* ran; instance 2 was unmounted and the popstate event just dispatched
\* reached its listener, whose cleanup has not run yet
C14_Witness ==
  /\ last.op = "popstate"
  /\ EffectsSettled(1)
  /\ effects[1].gen = 2
  /\ Cardinality(ListenersOf(1)) = 1
  /\ ~Live(2)
  /\ Cardinality(ListenersOf(2)) = 1
  /\ calls = 0

(***************************************************************************)
(* Claims about the History Writer (checked under SpecLib)                  *)
(***************************************************************************)
LibWrites ==
  {"setUrlParams", "updateUrlParams", "removeUrlParams", "setTableParams"}

\* the Parameter Object the last library call gave to setUrlParams
WrittenParams ==
  LET current == parseUrlParams(last.url.search, Undef)
  IN CASE last.op \in {"setUrlParams", "setTableParams"} -> last.arg[1]
       [] last.op = "updateUrlParams" -> Merge(current, last.arg[1])
       [] last.op = "removeUrlParams" -> Delete(Spread(current), last.arg[1])

\* C15: setUrlParams with replace = true overwrites the current history
\* entry (same length, same position); with replace false or omitted it adds
\* exactly one new entry after the entry that was current; in both cases the
\* current entry's URL is the newly built URL.
C15_PushOrReplace ==
  last.op = "setUrlParams" =>
    /\ location =
         Url(last.url.path, buildQueryString(last.arg[1]), last.url.hash)
    /\ IF Option(last.arg[2], "replace")
       THEN /\ Len(entries) = last.len
            /\ cur = last.cur
       ELSE PushedOneEntry

\* a replace on the first of two entries: the second entry is still there
C15_Witness ==
  /\ last.op = "setUrlParams"
  /\ Option(last.arg[2], "replace")
  /\ last.cur = 1
  /\ Len(entries) = 2
  /\ entries[1] # last.url
  /\ entries[2].search = Search(LibQuery)

\* C16: every History Writer apply leaves the location's path and fragment
\* unchanged and replaces only the query part by serialize(params), which is
\* the empty string, without '?', when no key is emitted and '?' followed by
\* the emitted pairs otherwise.
C16_OnlyQueryReplaced ==
  last.op \in LibWrites =>
    LET pairs == buildFrom(WrittenParams, 1)
    IN /\ location.path = last.url.path
       /\ location.hash = last.url.hash
       /\ location.search = IF pairs = <<>> THEN <<>> ELSE <<QMark>> \o pairs

\* setUrlParams({tag: ''}) on '/users?tab=n&page=2&tag=#top' gives
\* '/users#top'
C16_Witness ==
  /\ last.op = "setUrlParams"
  /\ last.arg[1] = ObjOf("tag", Str(sEmpty))
  /\ last.url = Url(InitPath, Search(LibQuery), LibHash)
  /\ location = Url(InitPath, <<>>, LibHash)

\* the position of the first access `name` in the log (0: none)
IndexOf(log, name) ==
  IF \E j \in 1..Len(log) : log[j] = name
  THEN CHOOSE j \in 1..Len(log) :
         log[j] = name /\ \A k \in 1..(j - 1) : log[k] # name
  ELSE 0

HistoryCallAt == IndexOf(apiLog, "pushState") + IndexOf(apiLog, "replaceState")

\* what an apply does about scrolling, whatever the order
ScrollTaskOfApply ==
  IF ~Option(last.arg[2], "scroll")
  THEN /\ IndexOf(apiLog, "scrollY") > 0
       /\ Len(timers) = last.tasks + 1
       /\ timers[Len(timers)].pos = last.scrollY
       /\ scrollY = last.scrollY
  ELSE /\ IndexOf(apiLog, "scrollY") = 0
       /\ IndexOf(apiLog, "setTimeout") = 0
       /\ Len(timers) = last.tasks
       /\ scrollY = last.scrollY

\* C17 as stated: when scroll is not true, apply reads the scroll offset
\* before it performs the history update and schedules exactly one task that
\* restores it; when scroll is true no offset is read and no task scheduled.
C17_CapturesBeforeUpdate ==
  last.op = "setUrlParams" =>
    /\ ScrollTaskOfApply
    /\ ~Option(last.arg[2], "scroll") =>
         IndexOf(apiLog, "scrollY") < HistoryCallAt

\* C17, amended: when scroll is not true, apply performs the history update,
\* then reads the scroll offset (the update leaves it alone, so it is the
\* offset of before the update) and schedules exactly one task that restores
\* it; when scroll is true no offset is read and no task is scheduled.
C17_CapturesAfterUpdate ==
  last.op = "setUrlParams" =>
    /\ ScrollTaskOfApply
    /\ ~Option(last.arg[2], "scroll") =>
         /\ HistoryCallAt < IndexOf(apiLog, "scrollY")
         /\ IndexOf(apiLog, "scrollY") < IndexOf(apiLog, "setTimeout")

\* an apply at offset 40 while the task of an earlier apply is still queued
C17_Witness ==
  /\ last.op = "setUrlParams"
  /\ ~Option(last.arg[2], "scroll")
  /\ last.scrollY = 40
  /\ last.tasks = 1
  /\ Len(timers) = 2
  /\ timers[2].pos = 40

\* the queued tasks are the ones of the applies since the task that ran
\* last, in the order of the applies
C18_QueuedInCallOrder ==
  \A j \in 1..Len(timers) : timers[j].id = ranId + j

\* a task that runs is the oldest one, and it scrolls to its own offset
C18_RunsOldest ==
  ranId' # ranId =>
    /\ ranId' = Head(timers).id
    /\ scrollY' = Head(timers).pos
    /\ timers' = Tail(timers)

\* the task with id n and captured offset p is queued with another one
C18_Overlapping(n, p) ==
  /\ Len(timers) >= 2
  /\ \E j \in 1..Len(timers) : timers[j] = [id |-> n, pos |-> p]

\* the task with id n has just run and restored offset p
C18_Restored(n, p) ==
  last.op = "timer" /\ ranId = n /\ scrollY = p

\* C18: if an apply is called before the restoration task of an earlier
\* apply has run, both tasks eventually run, in the order of their apply
\* calls, each restoring the offset captured at its own call; so the offset
\* after the last of them is the one captured by the last apply.
C18_OverlappingRestorations ==
  /\ []C18_QueuedInCallOrder
  /\ [][C18_RunsOldest]_vars
  /\ \A n \in 1..MaxCalls, p \in ScrollOffsets :
       C18_Overlapping(n, p) ~> C18_Restored(n, p)

\* two applies, at offset 0 and then at offset 40, before any task ran; the
\* first task has just run and scrolled back to 0, the second is queued
C18_Witness ==
  /\ last.op = "timer"
  /\ last.tasks = 2
  /\ last.scrollY = 40
  /\ ranId = 1
  /\ scrollY = 0
  /\ timers = <<[id |-> 2, pos |-> 40]>>

(***************************************************************************)
(* More claims about the codec (checked under SpecCodec)                    *)
(***************************************************************************)
IsScalar(v) == v.kind \in {"num", "str", "bool"}

Omitted(v) == v = Undef \/ v = Null \/ v = Str(sEmpty)

\* C19: for every Parameter Object, buildQueryString emits no pair for a key
\* whose value is undefined, null or the empty string, exactly the pair
\* key=String(value) for a key with any other scalar value, and no pair with
\* a key that the object does not have.
C19_OmissionInvariant ==
  cPc = "built" =>
    /\ \A key \in Keys :
         /\ key \notin OwnKeys(cIn.p) => Occurrences(cOut, key) = 0
         /\ (key \in OwnKeys(cIn.p) /\ Omitted(Own(cIn.p, key))) =>
              Occurrences(cOut, key) = 0
         /\ (key \in OwnKeys(cIn.p) /\ IsScalar(Own(cIn.p, key))
               /\ ~Omitted(Own(cIn.p, key))) =>
              /\ Occurrences(cOut, key) = 1
              /\ OnlyValue(cOut, key) = String(Own(cIn.p, key))
    /\ \A j \in 1..Len(cOut) :
         cOut[j] = QMark \/ cOut[j][1] \in OwnKeys(cIn.p)

\* buildQueryString({page: null, tag: 0}) is '?tag=0'
C19_Witness ==
  /\ cPc = "built"
  /\ cIn.p = ObjOf2("page", Null, "tag", Num(0))
  /\ cOut = <<QMark, Pair("tag", <<"0">>)>>

\* the pairs of `key` in a query string, in order
PairsOf(q, key) == SelectSeq(q, LAMBDA pr : pr[1] = key)

\* C20: with empty defaults, a key that occurs n >= 2 times in the query
\* string maps in the parse result to a sequence of exactly n elements, the
\* values of its occurrences in order (each as the string it is or as that
\* string's coercion); and buildQueryString emits a sequence value as
\* repeated key=String(element) pairs in sequence order.
C20_RepeatedKeyAggregation ==
  /\ (cPc = "parsed" /\ cIn.d \in {Undef, EmptyObj}) =>
       \A key \in Keys :
         LET occ == PairsOf(cIn.q, key)
         IN Len(occ) >= 2 =>
              /\ key \in OwnKeys(cOut)
              /\ IsArray(Own(cOut, key))
              /\ Len(Own(cOut, key).val) = Len(occ)
              /\ \A j \in 1..Len(occ) :
                   Own(cOut, key).val[j] \in
                     {Str(occ[j][2]), ExpectedCoercion(occ[j][2])}
  /\ cPc = "built" =>
       \A key \in OwnKeys(cIn.p) :
         IsArray(Own(cIn.p, key)) =>
           PairsOf(cOut, key) =
             [j \in 1..Len(Own(cIn.p, key).val) |->
                <<key, String(Own(cIn.p, key).val[j])>>]

\* C21: for a key occurring once in the query string and not present in
\* defaults, parse maps 'true' to true, 'false' to false, a non-empty string
\* of decimal digits to the integer it denotes, and every other string (a
\* negative number, the empty string) to itself.
C21_CoercionTable ==
  cPc = "parsed" =>
    \A key \in Keys :
      (Occurrences(cIn.q, key) = 1 /\ key \notin OwnKeys(Spread(cIn.d))) =>
        /\ key \in OwnKeys(cOut)
        /\ Own(cOut, key) = ExpectedCoercion(OnlyValue(cIn.q, key))

\* C22: remove(keys) where none of the listed keys is present (in the state
\* or in the query string) is a no-op: the in-memory state keeps the same
\* keys and values, and the parameters encoded in the location's query
\* string (what parseUrlParams reads from it) are the same before and after.
C22_RemoveAbsentIsNoOp ==
  (/\ last.op = "remove"
   /\ last.pre # Undef
   /\ last.arg \cap OwnKeys(last.pre) = {}
   /\ \A k \in last.arg : ~HasKey(last.url.search, k)) =>
    /\ SameProps(StateOf(last.inst), last.pre)
    /\ SameProps(parseUrlParams(location.search, Undef),
                 parseUrlParams(last.url.search, Undef))

\* C23: updateUrlParams(updates) preserves the other parameters: every key
\* present in the query string before the call and not named in updates is
\* present after the call with the same value(s).
C23_UpdatePreservesOthers ==
  last.op = "updateUrlParams" =>
    \A key \in Keys \ OwnKeys(last.arg[1]) :
      HasKey(last.url.search, key) =>
        PairsOf(location.search, key) = PairsOf(last.url.search, key)

\* C24: the initial state of a store is parse(current query string,
\* defaults), over the base defaults page 1 / pageSize 10 for the table
\* store, and creating a store (its first render and its effect) writes
\* nothing: the entries, the position and the timer queue are as before.
C24_CreationReadsOnly ==
  /\ last.op = "mountHook" =>
       LET st == stores[last.inst]
       IN /\ SameProps(st.state,
               IF st.hook = "table"
               THEN parseUrlParams(location.search,
                      Merge(ObjOf2("page", Num(1), "pageSize", Num(10)),
                            st.defaults))
               ELSE parseUrlParams(location.search, st.defaults))
          /\ st.snap = st.state
  /\ last.op \in {"mountHook", "effects"} =>
       /\ location = last.url
       /\ Len(entries) = last.len
       /\ cur = last.cur
       /\ Len(timers) = last.tasks
  /\ calls = 0 => Len(entries) = 2 /\ entries[1].search = <<>>

\* a table store with defaults {pageSize: 20} created on /users?tag=a
C24_Witness ==
  /\ last.op = "mountHook"
  /\ stores[last.inst].hook = "table"
  /\ stores[last.inst].defaults = ObjOf("pageSize", Num(20))
  /\ location.search = <<QMark, Pair("tag", <<"a">>)>>
  /\ Props(StateOf(last.inst)) =
       [page |-> Num(1), pageSize |-> Num(20), tag |-> Str(<<"a">>)]

(***************************************************************************)
(* Claims about two stores on one location (checked under SpecPair)         *)
(***************************************************************************)
\* a mutator call changes the store of its own instance only
C25_OtherStoreUnchanged ==
  calls' = calls + 1 =>
    \A b \in Inst : b # last'.inst => stores'[b] = stores[b]

\* after a mutator call the location is the URL that call wrote
C25_LastWriteWins ==
  last.op \in {"set", "setPage", "setSearch"} =>
    location =
      Url(last.url.path, buildQueryString(StateOf(last.inst)), last.url.hash)

\* C25: with two live store instances on the same location, a mutation by
\* one instance rewrites the shared location and leaves the other instance's
\* in-memory state unchanged; after mutations by both, the location holds
\* the URL written by the call that ran last.
C25_UncoordinatedInstances ==
  [][C25_OtherStoreUnchanged]_vars /\ []C25_LastWriteWins

\* the generic store did set({tag: 'b'}), then the table store setPage(3):
\* the location is the table store's URL, the generic store still holds tag
C25_Witness ==
  /\ calls = 2
  /\ last.op = "setPage" /\ last.inst = 2
  /\ stores[1].batch = 1
  /\ StateOf(1) = ObjOf("tag", Str(<<"b">>))
  /\ last.url.search = buildQueryString(StateOf(1))
  /\ location.search = buildQueryString(StateOf(2))
  /\ location.search # last.url.search

(***************************************************************************)
(* The API client (lib/apiClient.ts): request builds the init object it     *)
(* gives to fetch, awaits the response, then (unless the status is 204)     *)
(* awaits the body, and returns the parsed body or throws an ApiError.      *)
(* Other tasks of the page run while the request awaits.                    *)
(***************************************************************************)
\* response.json() rejects: the body is not JSON
NotJson == [kind |-> "notjson", val |-> 0]

\* new ApiError(message, status, data); Error stores String(message)
ApiError(message, status, data) ==
  [name |-> "ApiError", message |-> String(message), status |-> status,
   data |-> data]

\* the headers request writes before the caller's configuration
DefaultHeaders == ObjOf("Content-Type", "application/json")

\* obj.headers: undefined when the object has no such property
HeadersOf(obj) == IF Has(obj, "headers") THEN Own(obj, "headers") ELSE Undef

\* the second argument of fetch:
\* { headers: { 'Content-Type': ..., ...fetchConfig.headers }, ...fetchConfig }
fetchInit(config) ==
  LET fetchConfig == Delete(config, {"params"})
  IN Merge(ObjOf("headers", Merge(DefaultHeaders, HeadersOf(fetchConfig))),
           fetchConfig)

\* response.ok
Ok(status) == status \in 200..299

\* (data as { message?: string })?.message
MessageOf(data) ==
  IF IsObj(data) THEN Get(data, "message") ELSE Undef

sHttp == <<"H", "T", "T", "P", " ">>

\* variant: a body that is not JSON makes the request throw without data
settle_NoData(status, body) ==
  LET data == IF body = NotJson THEN Undef ELSE body
      message == IF Falsy(MessageOf(data))
                 THEN Str(sHttp \o NatToString(status))
                 ELSE MessageOf(data)
  IN IF ~Ok(status)
     THEN [kind |-> "throw", value |-> ApiError(message, status, data)]
     ELSE [kind |-> "return", value |-> data]

\* request, once response.json() has settled: data is the parsed body, or
\* null when json() rejected; then !response.ok throws, else data is returned
settle(status, body) ==
  LET data == IF body = NotJson THEN Null ELSE body
      message == IF Falsy(MessageOf(data))
                 THEN Str(sHttp \o NatToString(status))
                 ELSE MessageOf(data)
  IN IF ~Ok(status)
     THEN [kind |-> "throw", value |-> ApiError(message, status, data)]
     ELSE [kind |-> "return", value |-> data]

\* apiClient.get / post / put / patch / delete: the config given to request
apiClient(method, config) ==
  IF method \in {"POST", "PUT", "PATCH"}
  THEN Merge(config, ObjOf2("method", method, "body", "json"))
  ELSE Merge(config, ObjOf("method", method))

ApiMethods == {"GET", "POST"}
ApiHeaders ==
  { ObjOf("Authorization", "t"), ObjOf("Content-Type", "text/plain"),
    ObjOf2("Authorization", "t", "Content-Type", "text/plain") }
ApiConfigs ==
  { EmptyObj, ObjOf("params", ObjOf("page", Num(1))) }
    \cup { ObjOf("headers", h) : h \in ApiHeaders }
    \cup { ObjOf2("headers", h, "params", ObjOf("page", Num(1))) :
             h \in ApiHeaders }
ApiStatuses == {200, 204, 404, 500}
ApiBodies ==
  { NotJson, Null, Str(<<"o", "k">>), Arr(<<Num(1)>>), EmptyObj,
    ObjOf("message", Str(<<"N", "o">>)), ObjOf("message", Str(sEmpty)),
    ObjOf("message", Null), ObjOf("id", Num(7)) }

ApiInputs ==
  /\ aPc = "in"
  /\ aOut = EmptyObj
  /\ \E m \in ApiMethods, c \in ApiConfigs, st \in ApiStatuses,
        b \in ApiBodies :
       aIn = [method |-> m, config |-> c, status |-> st, body |-> b]

\* request calls fetch(url, init)
ApiFetch ==
  /\ aPc = "in"
  /\ aOut' = [init |-> fetchInit(apiClient(aIn.method, aIn.config))]
  /\ aPc' = "sent"
  /\ UNCHANGED <<aIn, storeVars, codecVars>>

\* fetch resolves with the response (status and headers; the body is still
\* to be read): a 204 returns undefined at once, any other status awaits
\* response.json()
ApiResponse ==
  /\ aPc = "sent"
  /\ IF aIn.status = 204
     THEN /\ aOut' = [init |-> aOut.init,
                      result |-> [kind |-> "return", value |-> Undef]]
          /\ aPc' = "done"
     ELSE /\ aOut' = aOut
          /\ aPc' = "body"
  /\ UNCHANGED <<aIn, storeVars, codecVars>>

\* response.json() settles: request returns or throws
ApiSettle ==
  /\ aPc = "body"
  /\ aOut' = [init |-> aOut.init, result |-> settle(aIn.status, aIn.body)]
  /\ aPc' = "done"
  /\ UNCHANGED <<aIn, storeVars, codecVars>>

\* while the request awaits, the event loop runs the other tasks of the
\* page; the user scrolling stands for them
ApiNext ==
  \/ ApiFetch
  \/ ApiResponse
  \/ ApiSettle
  \/ \E y \in ScrollOffsets : UserScroll(y)

ApiInit == ApiInputs /\ StoresIdle /\ CodecIdle

SpecApi == ApiInit /\ [][ApiNext]_vars

(***************************************************************************)
(* Claims about the API client (checked under SpecApi)                      *)
(***************************************************************************)
\* the parsed JSON body of the response, null when the body is not JSON
ParsedBody == IF aIn.body = NotJson THEN Null ELSE aIn.body

\* the body's message field when it is a non-empty string, else 'HTTP <status>'
ExpectedMessage ==
  LET data == ParsedBody
  IN IF /\ IsObj(data)
        /\ Has(data, "message")
        /\ Own(data, "message").kind = "str"
        /\ Own(data, "message").val # sEmpty
     THEN Own(data, "message").val
     ELSE sHttp \o NatToString(aIn.status)

\* C26: for every response with ok = false, request rejects with an ApiError
\* whose status is the response status, whose data is the parsed JSON body
\* (null when the body is not JSON) and whose message is the body's message
\* field when non-empty, else 'HTTP <status>'; for every ok response no
\* error is raised and the parsed body (undefined for 204) is returned.
C26_TypedErrors ==
  aPc = "done" =>
    LET r == aOut.result
    IN IF ~Ok(aIn.status)
       THEN /\ r.kind = "throw"
            /\ r.value.name = "ApiError"
            /\ r.value.status = aIn.status
            /\ r.value.data = ParsedBody
            /\ r.value.message = ExpectedMessage
       ELSE /\ r.kind = "return"
            /\ r.value = IF aIn.status = 204 THEN Undef ELSE ParsedBody

\* a 500 response whose body is not JSON: ApiError('HTTP 500', 500, null)
C26_Witness ==
  /\ aPc = "done"
  /\ aIn.status = 500
  /\ aIn.body = NotJson
  /\ aOut.result.kind = "throw"
  /\ aOut.result.value.data = Null
  /\ aOut.result.value.message = <<"H", "T", "T", "P", " ", "5", "0", "0">>

\* C27: when a key occurs two or more times in the query string and is not
\* in defaults, the parse result holds for it the sequence whose first
\* element is the coerced first occurrence and whose later elements are the
\* raw strings of the later occurrences (n=1&n=2 gives [1, "2"]).
C27_OnlyFirstCoerced ==
  cPc = "parsed" =>
    \A key \in Keys :
      LET occ == PairsOf(cIn.q, key)
      IN (Len(occ) >= 2 /\ key \notin OwnKeys(Spread(cIn.d))) =>
           /\ key \in OwnKeys(cOut)
           /\ Own(cOut, key) =
                Arr([j \in 1..Len(occ) |->
                       IF j = 1 THEN ExpectedCoercion(occ[1][2])
                       ELSE Str(occ[j][2])])

\* a value that buildQueryString writes
Present(v) == ~Omitted(v)

\* C28: after a table mutator (page and pageSize positive integers, string
\* values non-empty and non-numeric, no setFilter on page or with a number),
\* a new table store created from the resulting URL with the same defaults
\* has an initial state equal to the mutating store's state on every key
\* with a present value.
C28_ReloadConsistency ==
  (last.op \in TableMutators \cup {"tableReset"} /\ filtered = {}) =>
    LET st == StateOf(last.inst)
        reloaded == parseTableParams(location.search,
                                     stores[last.inst].defaults)
    IN \A key \in OwnKeys(st) :
         Present(Own(st, key)) =>
           /\ key \in OwnKeys(reloaded)
           /\ Own(reloaded, key) = Own(st, key)

\* the step is the second mutator call of instance i from one render pass:
\* both callbacks close over the same snapshot
SecondCallOfRender(i) ==
  /\ stores[i].batch = 1
  /\ stores'[i].batch = 2
  /\ last.inst = i
  /\ last'.inst = i

\* the state after both calls reflects both: for update(p1) then update(p2)
\* it is the state after update(p1) merged with p2; for setSearch(s) then
\* setSort(f, o) it holds s, f and o and is what the URL written last encodes
C29_BothChangesKept ==
  \A i \in Inst :
    SecondCallOfRender(i) =>
      /\ (last.op = "update" /\ last'.op = "update") =>
           SameProps(stores'[i].state, Merge(stores[i].state, last'.arg))
      /\ (last.op = "setSearch" /\ last.arg[1] # sEmpty
            /\ last'.op = "setSort") =>
           /\ Get(stores'[i].state, "search") = Str(last.arg[1])
           /\ Get(stores'[i].state, "sortField") = last'.arg[1]
           /\ location'.search = buildQueryString(stores'[i].state)

\* C29: when two mutators of the same store are invoked one after the other
\* from the same render pass (update(p1) then update(p2), or setSearch(s)
\* then setSort(f, o)), the resulting in-memory state reflects both changes
\* and equals the state encoded in the URL that was written last.
C29_NoLostUpdate == [][C29_BothChangesKept]_vars

\* the headers of the init object fetch was given
SentHeaders == Spread(HeadersOf(aOut.init))

\* C30: the request passed to fetch carries the default header
\* Content-Type: application/json merged with the caller's headers: a
\* caller-supplied header overrides the default of the same name, and when
\* the caller's headers do not name Content-Type the default is still sent.
C30_HeaderMerge ==
  aPc \in {"sent", "body", "done"} =>
    LET caller == Spread(HeadersOf(aIn.config))
    IN /\ \A name \in OwnKeys(caller) :
            /\ name \in OwnKeys(SentHeaders)
            /\ Own(SentHeaders, name) = Own(caller, name)
       /\ "Content-Type" \notin OwnKeys(caller) =>
            /\ "Content-Type" \in OwnKeys(SentHeaders)
            /\ Own(SentHeaders, "Content-Type") = "application/json"

====
